---- MODULE Spec2Model ----
(***************************************************************************)
(* Model of plat/arm/common/arm_dyn_cfg_helpers.c: the TB_FW_CONFIG         *)
(* helpers arm_dyn_tb_fw_cfg_init, arm_dyn_get_disable_auth,                *)
(* arm_get_dtb_mbedtls_heap_info and arm_set_dtb_mbedtls_heap_info.         *)
(*                                                                         *)
(* The DTB is a header flag plus a sequence of nodes; the node at index i   *)
(* of the sequence has node offset i - 1.  A property is a sequence of      *)
(* cells.  A cell is a number below CellMod (the scaled 2^32); a two-cell   *)
(* value is stored most significant cell first.                             *)
(***************************************************************************)
EXTENDS Integers, Sequences, FiniteSets, TLC

\* Scaled cell modulus: a cell holds 0 .. CellMod - 1 (2^32 in the program).
CellMod == 3

\* Number of nodes of a DTB.
MaxNodes == 2

DTB_PROP_MBEDTLS_HEAP_ADDR == "mbedtls_heap_addr"

DTB_PROP_MBEDTLS_HEAP_SIZE == "mbedtls_heap_size"

DTB_PROP_DISABLE_AUTH == "disable_auth"

TB_FW_COMPATIBLE == "arm,tb_fw"

PropNames == {DTB_PROP_DISABLE_AUTH, DTB_PROP_MBEDTLS_HEAP_ADDR, DTB_PROP_MBEDTLS_HEAP_SIZE}

Cells == 0 .. (CellMod - 1)

\* Values of a two-cell (64-bit) quantity.
Addrs == 0 .. (CellMod * CellMod - 1)

Absent == [present |-> FALSE, cells |-> <<>>]

Prop(c) == [present |-> TRUE, cells |-> c]

MkProps(da, ha, hs) ==
  [p \in PropNames |->
     IF p = DTB_PROP_DISABLE_AUTH THEN da
     ELSE IF p = DTB_PROP_MBEDTLS_HEAP_ADDR THEN ha ELSE hs]

\* A node that is not compatible with "arm,tb_fw"; it carries a disable_auth
\* cell of its own.
OtherNode ==
  [compatible |-> "arm,other", props |-> MkProps(Prop(<<1>>), Absent, Absent)]

\* disable_auth as a DTB may hold it: absent, one cell of any value, or two
\* cells.
AuthProps == {Absent, Prop(<<0, 1>>)} \cup { Prop(<<v>>) : v \in Cells }

\* A heap property as a DTB may hold it: absent, one cell or two cells.
HeapProps == {Absent, Prop(<<1>>), Prop(<<0, 1>>)}

TbFwNode(da, ha, hs) ==
  [compatible |-> TB_FW_COMPATIBLE, props |-> MkProps(da, ha, hs)]

\* The "arm,tb_fw" nodes of a DTB with a valid header: every disable_auth
\* without heap properties, every combination of heap properties next to a
\* boolean disable_auth, and the heap properties of the schema next to a
\* non-boolean disable_auth.
TbFwNodes ==
  { TbFwNode(da, Absent, Absent) : da \in AuthProps }
  \cup { TbFwNode(Prop(<<1>>), ha, hs) : ha \in HeapProps, hs \in HeapProps }
  \cup { TbFwNode(Prop(<<CellMod - 1>>), Prop(<<0, 1>>), Prop(<<1>>)) }

\* The "arm,tb_fw" nodes of a DTB with an invalid header.
BadHeaderTbFwNodes ==
  { TbFwNode(da, Prop(<<0, 1>>), Prop(<<1>>)) : da \in {Absent, Prop(<<1>>), Prop(<<CellMod - 1>>)} }

NodesWith(k, t) == [i \in 1 .. MaxNodes |-> IF i = k THEN t ELSE OtherNode]

\* The DTBs handed to the helpers: a valid or invalid header, and MaxNodes
\* nodes of which at most one is the "arm,tb_fw" node.
Blobs ==
  { [hdr |-> h, nodes |-> NodesWith(0, OtherNode)] : h \in BOOLEAN }
  \cup
  { [hdr |-> TRUE, nodes |-> NodesWith(k, t)] : k \in 1 .. MaxNodes, t \in TbFwNodes }
  \cup
  { [hdr |-> FALSE, nodes |-> NodesWith(k, t)] : k \in 1 .. MaxNodes, t \in BadHeaderTbFwNodes }

\* Node offsets a caller may pass: every node of the DTB, a negative offset
\* and an offset past the last node.
Handles == (-1) .. MaxNodes

VARIABLES
  dtb,      \* the TB_FW_CONFIG in memory
  dtb0,     \* the TB_FW_CONFIG as it was loaded
  build,    \* build options: assertions enabled, libfdt read probes the header
  op,       \* the helper called last ("none" before the first call)
  args,     \* its arguments: node, heap_addr, heap_size
  halted,   \* an assertion of the call failed: the call did not return
  ret,      \* the value the last call that returned has returned
  out,      \* the caller's output locations: node, disable_auth, heap_addr, heap_size
  wrote,    \* the output locations the last call stored to
  calls,    \* the libfdt / fdt_wrappers calls the last call made, in order
  log,      \* the WARN / ERROR messages of the last call
  pending   \* the heap descriptor of the last arm_set_dtb_mbedtls_heap_info call

vars == <<dtb, dtb0, build, op, args, halted, ret, out, wrote, calls, log, pending>>

ENABLE_ASSERTIONS == build.assertions

Call(fn, prop) == [fn |-> fn, prop |-> prop]

CallCheckHeader == Call("fdt_check_header", "")

CallFindNode == Call("fdt_node_offset_by_compatible", TB_FW_COMPATIBLE)

CallRead(prop) == Call("fdtw_read_cells", prop)

CallWrite(prop) == Call("fdtw_write_inplace_cells", prop)

\* ---- libfdt and fdt_wrappers ------------------------------------------

\* 0 for a well-formed header, a negative libfdt error otherwise.
fdt_check_header(d) == IF d.hdr THEN 0 ELSE -1

\* Offset of the first node after startoffset compatible with compat,
\* -FDT_ERR_NOTFOUND when there is none.
fdt_node_offset_by_compatible(d, startoffset, compat) ==
  LET found == { i \in 1 .. Len(d.nodes) :
                   i - 1 > startoffset /\ d.nodes[i].compatible = compat }
  IN IF found = {} THEN -1
     ELSE (CHOOSE i \in found : \A j \in found : i <= j) - 1

ValidOffset(d, node) == node >= 0 /\ node < Len(d.nodes)

\* The cells of a value, most significant cell first.
Encode(value, cells) ==
  IF cells = 2 THEN <<(value \div CellMod) % CellMod, value % CellMod>>
  ELSE <<value % CellMod>>

\* The value of one or two cells, most significant cell first.
Decode(c) ==
  IF Len(c) = 2 THEN c[1] * CellMod + c[2] ELSE c[1]

\* Whether the property exists at the node with exactly `cells` cells.
HasCells(d, node, prop, cells) ==
  /\ ValidOffset(d, node)
  /\ d.nodes[node + 1].props[prop].present
  /\ Len(d.nodes[node + 1].props[prop].cells) = cells

\* read_cells: the value of the property, or an error when the property is
\* absent or its length is not `cells` cells.  On a DTB whose header is
\* invalid the outcome depends on whether the library probes the header.
fdtw_read_cells(d, node, prop, cells) ==
  IF (~d.hdr /\ build.ro_probe) \/ ~HasCells(d, node, prop, cells)
  THEN [err |-> -1, value |-> 0]
  ELSE [err |-> 0, value |-> Decode(d.nodes[node + 1].props[prop].cells)]

\* write_cells_in_place: overwrites the cells of an existing property of
\* exactly `cells` cells; never creates a property or resizes the DTB.
fdtw_write_inplace_cells(d, node, prop, cells, value) ==
  IF ~HasCells(d, node, prop, cells)
  THEN [err |-> -1, dtb |-> d]
  ELSE [err |-> 0,
        dtb |-> [d EXCEPT !.nodes[node + 1].props[prop].cells = Encode(value, cells)]]

\* Number of cells of the properties of the first n nodes.
RECURSIVE CellCount(_, _)
CellCount(d, n) ==
  IF n = 0 THEN 0
  ELSE CellCount(d, n - 1)
       + Len(d.nodes[n].props[DTB_PROP_DISABLE_AUTH].cells)
       + Len(d.nodes[n].props[DTB_PROP_MBEDTLS_HEAP_ADDR].cells)
       + Len(d.nodes[n].props[DTB_PROP_MBEDTLS_HEAP_SIZE].cells)

\* Total size of the DTB, in cells: one per node and one per property cell.
fdt_totalsize(d) == Len(d.nodes) + CellCount(d, Len(d.nodes))

\* ---- the helpers ------------------------------------------------------

\* arm_dyn_tb_fw_cfg_init without the test of the search result: a missing
\* node is reported as success.
arm_dyn_tb_fw_cfg_init_no_node_test(d) ==
  IF fdt_check_header(d) # 0
  THEN [ret |-> -1, node |-> 0, wrote |-> {},
        calls |-> <<CallCheckHeader>>,
        log |-> <<"WARN: Invalid DTB file passed as TB_FW_CONFIG">>]
  ELSE [ret |-> 0, node |-> fdt_node_offset_by_compatible(d, -1, TB_FW_COMPATIBLE),
        wrote |-> {"node"},
        calls |-> <<CallCheckHeader, CallFindNode>>,
        log |-> <<>>]

\* arm_dyn_tb_fw_cfg_init that does not return on a malformed header and
\* goes on to the node search.
arm_dyn_tb_fw_cfg_init_no_header_return(d) ==
  LET n == fdt_node_offset_by_compatible(d, -1, TB_FW_COMPATIBLE)
  IN IF n < 0
     THEN [ret |-> -1, node |-> n, wrote |-> {"node"},
           calls |-> <<CallCheckHeader, CallFindNode>>,
           log |-> <<"WARN: The compatible property arm,tb_fw not found in the config">>]
     ELSE [ret |-> 0, node |-> n, wrote |-> {"node"},
           calls |-> <<CallCheckHeader, CallFindNode>>,
           log |-> <<>>]

\* arm_dyn_tb_fw_cfg_init(dtb, &node): ret, the value stored to *node (if
\* any), the library calls made and the messages logged.
arm_dyn_tb_fw_cfg_init(d) ==
  IF fdt_check_header(d) # 0
  THEN [ret |-> -1, node |-> 0, wrote |-> {},
        calls |-> <<CallCheckHeader>>,
        log |-> <<"WARN: Invalid DTB file passed as TB_FW_CONFIG">>]
  ELSE LET n == fdt_node_offset_by_compatible(d, -1, TB_FW_COMPATIBLE)
       IN IF n < 0
          THEN [ret |-> -1, node |-> n, wrote |-> {"node"},
                calls |-> <<CallCheckHeader, CallFindNode>>,
                log |-> <<"WARN: The compatible property arm,tb_fw not found in the config">>]
          ELSE [ret |-> 0, node |-> n, wrote |-> {"node"},
                calls |-> <<CallCheckHeader, CallFindNode>>,
                log |-> <<>>]

\* The assertions of arm_dyn_get_disable_auth without the comparison of the
\* node offset.
DisableAuthAsserts_no_node_assert(d, node) ==
  IF ~ENABLE_ASSERTIONS THEN "ok"
  ELSE IF fdt_check_header(d) # 0 THEN "hdr"
  ELSE "ok"

\* The two assertions on the DTB at the head of arm_dyn_get_disable_auth, in
\* order: "hdr" or "node" names the one that fails, "ok" that both pass or
\* are compiled out.
DisableAuthAsserts(d, node) ==
  IF ~ENABLE_ASSERTIONS THEN "ok"
  ELSE IF fdt_check_header(d) # 0 THEN "hdr"
  ELSE IF node # fdt_node_offset_by_compatible(d, -1, TB_FW_COMPATIBLE) THEN "node"
  ELSE "ok"

\* arm_dyn_get_disable_auth without the test that the value is boolean.
arm_dyn_get_disable_auth_no_domain_test(d, node) ==
  LET a == DisableAuthAsserts(d, node)
      checked == IF ENABLE_ASSERTIONS THEN <<CallCheckHeader, CallFindNode>> ELSE <<>>
      r == fdtw_read_cells(d, node, DTB_PROP_DISABLE_AUTH, 1)
  IN IF a = "hdr"
     THEN [halted |-> TRUE, ret |-> 0, disable_auth |-> 0, wrote |-> {},
           calls |-> <<CallCheckHeader>>, log |-> <<>>]
     ELSE IF a = "node"
     THEN [halted |-> TRUE, ret |-> 0, disable_auth |-> 0, wrote |-> {},
           calls |-> <<CallCheckHeader, CallFindNode>>, log |-> <<>>]
     ELSE IF r.err < 0
     THEN [halted |-> FALSE, ret |-> -1, disable_auth |-> 0, wrote |-> {},
           calls |-> checked \o <<CallRead(DTB_PROP_DISABLE_AUTH)>>,
           log |-> <<"WARN: Read cell failed for disable_auth">>]
     ELSE [halted |-> FALSE, ret |-> 0, disable_auth |-> r.value,
           wrote |-> {"disable_auth"},
           calls |-> checked \o <<CallRead(DTB_PROP_DISABLE_AUTH)>>,
           log |-> <<>>]

\* arm_dyn_get_disable_auth(dtb, node, &disable_auth).
arm_dyn_get_disable_auth(d, node) ==
  LET a == DisableAuthAsserts(d, node)
      checked == IF ENABLE_ASSERTIONS THEN <<CallCheckHeader, CallFindNode>> ELSE <<>>
      r == fdtw_read_cells(d, node, DTB_PROP_DISABLE_AUTH, 1)
  IN IF a = "hdr"
     THEN [halted |-> TRUE, ret |-> 0, disable_auth |-> 0, wrote |-> {},
           calls |-> <<CallCheckHeader>>, log |-> <<>>]
     ELSE IF a = "node"
     THEN [halted |-> TRUE, ret |-> 0, disable_auth |-> 0, wrote |-> {},
           calls |-> <<CallCheckHeader, CallFindNode>>, log |-> <<>>]
     ELSE IF r.err < 0
     THEN [halted |-> FALSE, ret |-> -1, disable_auth |-> 0, wrote |-> {},
           calls |-> checked \o <<CallRead(DTB_PROP_DISABLE_AUTH)>>,
           log |-> <<"WARN: Read cell failed for disable_auth">>]
     ELSE IF r.value # 0 /\ r.value # 1
     THEN [halted |-> FALSE, ret |-> -1, disable_auth |-> r.value,
           wrote |-> {"disable_auth"},
           calls |-> checked \o <<CallRead(DTB_PROP_DISABLE_AUTH)>>,
           log |-> <<"WARN: Invalid value for disable_auth cell">>]
     ELSE [halted |-> FALSE, ret |-> 0, disable_auth |-> r.value,
           wrote |-> {"disable_auth"},
           calls |-> checked \o <<CallRead(DTB_PROP_DISABLE_AUTH)>>,
           log |-> <<>>]

\* arm_get_dtb_mbedtls_heap_info that does not test the result of the size
\* read.
arm_get_dtb_mbedtls_heap_info_ignore_size_error(d) ==
  LET v == arm_dyn_tb_fw_cfg_init(d)
      a == fdtw_read_cells(d, v.node, DTB_PROP_MBEDTLS_HEAP_ADDR, 2)
      s == fdtw_read_cells(d, v.node, DTB_PROP_MBEDTLS_HEAP_SIZE, 1)
  IN IF v.ret < 0
     THEN [ret |-> -1, heap_addr |-> 0, heap_size |-> 0, wrote |-> {},
           calls |-> v.calls,
           log |-> v.log \o <<"ERROR: Invalid TB_FW_CONFIG. Cannot retrieve Mbed TLS heap information from DTB">>]
     ELSE IF a.err < 0
     THEN [ret |-> -1, heap_addr |-> 0, heap_size |-> 0, wrote |-> {},
           calls |-> v.calls \o <<CallRead(DTB_PROP_MBEDTLS_HEAP_ADDR)>>,
           log |-> <<"ERROR: Error while reading mbedtls_heap_addr from DTB">>]
     ELSE [ret |-> 0, heap_addr |-> a.value, heap_size |-> s.value,
           wrote |-> IF s.err < 0 THEN {"heap_addr"} ELSE {"heap_addr", "heap_size"},
           calls |-> v.calls \o <<CallRead(DTB_PROP_MBEDTLS_HEAP_ADDR),
                                   CallRead(DTB_PROP_MBEDTLS_HEAP_SIZE)>>,
           log |-> <<>>]

\* arm_get_dtb_mbedtls_heap_info(dtb, &heap_addr, &heap_size).
arm_get_dtb_mbedtls_heap_info(d) ==
  LET v == arm_dyn_tb_fw_cfg_init(d)
      a == fdtw_read_cells(d, v.node, DTB_PROP_MBEDTLS_HEAP_ADDR, 2)
      s == fdtw_read_cells(d, v.node, DTB_PROP_MBEDTLS_HEAP_SIZE, 1)
  IN IF v.ret < 0
     THEN [ret |-> -1, heap_addr |-> 0, heap_size |-> 0, wrote |-> {},
           calls |-> v.calls,
           log |-> v.log \o <<"ERROR: Invalid TB_FW_CONFIG. Cannot retrieve Mbed TLS heap information from DTB">>]
     ELSE IF a.err < 0
     THEN [ret |-> -1, heap_addr |-> 0, heap_size |-> 0, wrote |-> {},
           calls |-> v.calls \o <<CallRead(DTB_PROP_MBEDTLS_HEAP_ADDR)>>,
           log |-> <<"ERROR: Error while reading mbedtls_heap_addr from DTB">>]
     ELSE IF s.err < 0
     THEN [ret |-> -1, heap_addr |-> a.value, heap_size |-> 0, wrote |-> {"heap_addr"},
           calls |-> v.calls \o <<CallRead(DTB_PROP_MBEDTLS_HEAP_ADDR),
                                   CallRead(DTB_PROP_MBEDTLS_HEAP_SIZE)>>,
           log |-> <<"ERROR: Error while reading mbedtls_heap_size from DTB">>]
     ELSE [ret |-> 0, heap_addr |-> a.value, heap_size |-> s.value,
           wrote |-> {"heap_addr", "heap_size"},
           calls |-> v.calls \o <<CallRead(DTB_PROP_MBEDTLS_HEAP_ADDR),
                                   CallRead(DTB_PROP_MBEDTLS_HEAP_SIZE)>>,
           log |-> <<>>]

\* arm_set_dtb_mbedtls_heap_info that returns after the address write and
\* leaves mbedtls_heap_size as it was.
arm_set_dtb_mbedtls_heap_info_no_size_write(d, heap_addr, heap_size) ==
  LET v == arm_dyn_tb_fw_cfg_init(d)
      a == fdtw_write_inplace_cells(d, v.node, DTB_PROP_MBEDTLS_HEAP_ADDR, 2, heap_addr)
  IN IF v.ret < 0
     THEN [ret |-> -1, dtb |-> d, calls |-> v.calls,
           log |-> v.log \o <<"ERROR: Invalid TB_FW_CONFIG loaded. Unable to get root node">>]
     ELSE IF a.err < 0
     THEN [ret |-> -1, dtb |-> a.dtb,
           calls |-> v.calls \o <<CallWrite(DTB_PROP_MBEDTLS_HEAP_ADDR)>>,
           log |-> <<"ERROR: Unable to write DTB property mbedtls_heap_addr">>]
     ELSE [ret |-> 0, dtb |-> a.dtb,
           calls |-> v.calls \o <<CallWrite(DTB_PROP_MBEDTLS_HEAP_ADDR)>>,
           log |-> <<>>]

\* arm_set_dtb_mbedtls_heap_info that does not test the result of the address
\* write and goes on to the size write.
arm_set_dtb_mbedtls_heap_info_ignore_addr_error(d, heap_addr, heap_size) ==
  LET v == arm_dyn_tb_fw_cfg_init(d)
      a == fdtw_write_inplace_cells(d, v.node, DTB_PROP_MBEDTLS_HEAP_ADDR, 2, heap_addr)
      s == fdtw_write_inplace_cells(a.dtb, v.node, DTB_PROP_MBEDTLS_HEAP_SIZE, 1, heap_size)
  IN IF v.ret < 0
     THEN [ret |-> -1, dtb |-> d, calls |-> v.calls,
           log |-> v.log \o <<"ERROR: Invalid TB_FW_CONFIG loaded. Unable to get root node">>]
     ELSE IF s.err < 0
     THEN [ret |-> -1, dtb |-> s.dtb,
           calls |-> v.calls \o <<CallWrite(DTB_PROP_MBEDTLS_HEAP_ADDR),
                                   CallWrite(DTB_PROP_MBEDTLS_HEAP_SIZE)>>,
           log |-> <<"ERROR: Unable to write DTB property mbedtls_heap_size">>]
     ELSE [ret |-> 0, dtb |-> s.dtb,
           calls |-> v.calls \o <<CallWrite(DTB_PROP_MBEDTLS_HEAP_ADDR),
                                   CallWrite(DTB_PROP_MBEDTLS_HEAP_SIZE)>>,
           log |-> <<>>]

\* arm_set_dtb_mbedtls_heap_info that restores the address when the size
\* write fails.
arm_set_dtb_mbedtls_heap_info_rollback(d, heap_addr, heap_size) ==
  LET v == arm_dyn_tb_fw_cfg_init(d)
      a == fdtw_write_inplace_cells(d, v.node, DTB_PROP_MBEDTLS_HEAP_ADDR, 2, heap_addr)
      s == fdtw_write_inplace_cells(a.dtb, v.node, DTB_PROP_MBEDTLS_HEAP_SIZE, 1, heap_size)
  IN IF v.ret < 0
     THEN [ret |-> -1, dtb |-> d, calls |-> v.calls,
           log |-> v.log \o <<"ERROR: Invalid TB_FW_CONFIG loaded. Unable to get root node">>]
     ELSE IF a.err < 0
     THEN [ret |-> -1, dtb |-> a.dtb,
           calls |-> v.calls \o <<CallWrite(DTB_PROP_MBEDTLS_HEAP_ADDR)>>,
           log |-> <<"ERROR: Unable to write DTB property mbedtls_heap_addr">>]
     ELSE IF s.err < 0
     THEN [ret |-> -1, dtb |-> d,
           calls |-> v.calls \o <<CallWrite(DTB_PROP_MBEDTLS_HEAP_ADDR),
                                   CallWrite(DTB_PROP_MBEDTLS_HEAP_SIZE)>>,
           log |-> <<"ERROR: Unable to write DTB property mbedtls_heap_size">>]
     ELSE [ret |-> 0, dtb |-> s.dtb,
           calls |-> v.calls \o <<CallWrite(DTB_PROP_MBEDTLS_HEAP_ADDR),
                                   CallWrite(DTB_PROP_MBEDTLS_HEAP_SIZE)>>,
           log |-> <<>>]

\* arm_set_dtb_mbedtls_heap_info that writes the size under the name of
\* another one-cell property.
arm_set_dtb_mbedtls_heap_info_wrong_prop(d, heap_addr, heap_size) ==
  LET v == arm_dyn_tb_fw_cfg_init(d)
      a == fdtw_write_inplace_cells(d, v.node, DTB_PROP_MBEDTLS_HEAP_ADDR, 2, heap_addr)
      s == fdtw_write_inplace_cells(a.dtb, v.node, DTB_PROP_DISABLE_AUTH, 1, heap_size)
  IN IF v.ret < 0
     THEN [ret |-> -1, dtb |-> d, calls |-> v.calls,
           log |-> v.log \o <<"ERROR: Invalid TB_FW_CONFIG loaded. Unable to get root node">>]
     ELSE IF a.err < 0
     THEN [ret |-> -1, dtb |-> a.dtb,
           calls |-> v.calls \o <<CallWrite(DTB_PROP_MBEDTLS_HEAP_ADDR)>>,
           log |-> <<"ERROR: Unable to write DTB property mbedtls_heap_addr">>]
     ELSE IF s.err < 0
     THEN [ret |-> -1, dtb |-> s.dtb,
           calls |-> v.calls \o <<CallWrite(DTB_PROP_MBEDTLS_HEAP_ADDR),
                                   CallWrite(DTB_PROP_DISABLE_AUTH)>>,
           log |-> <<"ERROR: Unable to write DTB property mbedtls_heap_size">>]
     ELSE [ret |-> 0, dtb |-> s.dtb,
           calls |-> v.calls \o <<CallWrite(DTB_PROP_MBEDTLS_HEAP_ADDR),
                                   CallWrite(DTB_PROP_DISABLE_AUTH)>>,
           log |-> <<>>]

\* arm_set_dtb_mbedtls_heap_info(dtb, heap_addr, heap_size): ret and the DTB
\* the call leaves.
arm_set_dtb_mbedtls_heap_info(d, heap_addr, heap_size) ==
  LET v == arm_dyn_tb_fw_cfg_init(d)
      a == fdtw_write_inplace_cells(d, v.node, DTB_PROP_MBEDTLS_HEAP_ADDR, 2, heap_addr)
      s == fdtw_write_inplace_cells(a.dtb, v.node, DTB_PROP_MBEDTLS_HEAP_SIZE, 1, heap_size)
  IN IF v.ret < 0
     THEN [ret |-> -1, dtb |-> d, calls |-> v.calls,
           log |-> v.log \o <<"ERROR: Invalid TB_FW_CONFIG loaded. Unable to get root node">>]
     ELSE IF a.err < 0
     THEN [ret |-> -1, dtb |-> a.dtb,
           calls |-> v.calls \o <<CallWrite(DTB_PROP_MBEDTLS_HEAP_ADDR)>>,
           log |-> <<"ERROR: Unable to write DTB property mbedtls_heap_addr">>]
     ELSE IF s.err < 0
     THEN [ret |-> -1, dtb |-> s.dtb,
           calls |-> v.calls \o <<CallWrite(DTB_PROP_MBEDTLS_HEAP_ADDR),
                                   CallWrite(DTB_PROP_MBEDTLS_HEAP_SIZE)>>,
           log |-> <<"ERROR: Unable to write DTB property mbedtls_heap_size">>]
     ELSE [ret |-> 0, dtb |-> s.dtb,
           calls |-> v.calls \o <<CallWrite(DTB_PROP_MBEDTLS_HEAP_ADDR),
                                   CallWrite(DTB_PROP_MBEDTLS_HEAP_SIZE)>>,
           log |-> <<>>]

\* ---- the state machine -------------------------------------------------

NoArgs == [node |-> 0, heap_addr |-> 0, heap_size |-> 0]

NoOut == [node |-> 0, disable_auth |-> 0, heap_addr |-> 0, heap_size |-> 0]

NoPending == [valid |-> FALSE, heap_addr |-> 0, heap_size |-> 0]

Init ==
  /\ dtb \in Blobs
  /\ dtb0 = dtb
  /\ build \in [assertions : BOOLEAN, ro_probe : BOOLEAN]
  /\ build.ro_probe => ~dtb.hdr
  /\ op = "none"
  /\ args = NoArgs
  /\ halted = FALSE
  /\ ret = 0
  /\ out = NoOut
  /\ wrote = {}
  /\ calls = <<>>
  /\ log = <<>>
  /\ pending = NoPending

\* A caller validates the DTB.
TbFwCfgInit ==
  /\ ~halted
  /\ \E r \in {arm_dyn_tb_fw_cfg_init(dtb)} :
        /\ op' = "arm_dyn_tb_fw_cfg_init"
        /\ args' = NoArgs
        /\ ret' = r.ret
        /\ out' = [NoOut EXCEPT !.node = r.node]
        /\ wrote' = r.wrote
        /\ calls' = r.calls
        /\ log' = r.log
  /\ UNCHANGED <<dtb, dtb0, build, halted, pending>>

\* A caller reads disable_auth through the node offset it holds.
GetDisableAuth ==
  /\ ~halted
  /\ \E node \in Handles :
       \E r \in {arm_dyn_get_disable_auth(dtb, node)} :
          /\ op' = "arm_dyn_get_disable_auth"
          /\ args' = [NoArgs EXCEPT !.node = node]
          /\ halted' = r.halted
          /\ ret' = IF r.halted THEN ret ELSE r.ret
          /\ out' = [NoOut EXCEPT !.disable_auth = r.disable_auth]
          /\ wrote' = r.wrote
          /\ calls' = r.calls
          /\ log' = r.log
  /\ UNCHANGED <<dtb, dtb0, build, pending>>

\* BL2 reads the heap descriptor.
GetHeapInfo ==
  /\ ~halted
  /\ \E r \in {arm_get_dtb_mbedtls_heap_info(dtb)} :
        /\ op' = "arm_get_dtb_mbedtls_heap_info"
        /\ args' = NoArgs
        /\ ret' = r.ret
        /\ out' = [NoOut EXCEPT !.heap_addr = r.heap_addr, !.heap_size = r.heap_size]
        /\ wrote' = r.wrote
        /\ calls' = r.calls
        /\ log' = r.log
  /\ UNCHANGED <<dtb, dtb0, build, halted, pending>>

\* BL1 writes the heap descriptor.
SetHeapInfo ==
  /\ ~halted
  /\ \E heap_addr \in Addrs, heap_size \in Cells :
       \E r \in {arm_set_dtb_mbedtls_heap_info(dtb, heap_addr, heap_size)} :
          /\ op' = "arm_set_dtb_mbedtls_heap_info"
          /\ args' = [NoArgs EXCEPT !.heap_addr = heap_addr, !.heap_size = heap_size]
          /\ dtb' = r.dtb
          /\ ret' = r.ret
          /\ out' = NoOut
          /\ wrote' = {}
          /\ calls' = r.calls
          /\ log' = r.log
          /\ pending' = IF r.ret = 0
                        THEN [valid |-> TRUE, heap_addr |-> heap_addr, heap_size |-> heap_size]
                        ELSE NoPending
  /\ UNCHANGED <<dtb0, build, halted>>

Next == TbFwCfgInit \/ GetDisableAuth \/ GetHeapInfo \/ SetHeapInfo

Spec == Init /\ [][Next]_vars

\* ---- properties ---------------------------------------------------------

\* The node offset arm_dyn_tb_fw_cfg_init produces for the DTB as it is now.
TbNode == fdt_node_offset_by_compatible(dtb, -1, TB_FW_COMPATIBLE)

\* The DTB has a valid header and an "arm,tb_fw" node.
Validated == dtb.hdr /\ TbNode >= 0

\* A property of the "arm,tb_fw" node of a validated DTB.
TbProp(prop) == dtb.nodes[TbNode + 1].props[prop]

\* The last call returned -1 after logging exactly msg.
FailedWith(msg) == ~halted /\ ret = -1 /\ log = <<msg>>

StructuralError == "WARN: Invalid DTB file passed as TB_FW_CONFIG"

NodeNotFoundError == "WARN: The compatible property arm,tb_fw not found in the config"

AuthNotFoundError == "WARN: Read cell failed for disable_auth"

DomainError == "WARN: Invalid value for disable_auth cell"

\* C1: on a header-valid DTB, arm_dyn_get_disable_auth called with the
\* validator's node offset returns 0 and stores v when the disable_auth cell
\* holds v in {0, 1}, fails with the invalid-value warning (DomainError) for
\* every other v, and fails with the read-failed warning (NotFoundError) when
\* the property is absent.
C1_DisableAuthDomain ==
  (op = "arm_dyn_get_disable_auth" /\ Validated /\ args.node = TbNode) =>
    LET p == TbProp(DTB_PROP_DISABLE_AUTH)
    IN /\ ~halted
       /\ ~p.present => FailedWith(AuthNotFoundError)
       /\ (p.present /\ Len(p.cells) = 1 /\ p.cells[1] \in {0, 1}) =>
            /\ ret = 0
            /\ "disable_auth" \in wrote
            /\ out.disable_auth = p.cells[1]
       /\ (p.present /\ Len(p.cells) = 1 /\ p.cells[1] \notin {0, 1}) =>
            FailedWith(DomainError)

\* C1 witness: the accessor has rejected a disable_auth cell holding the
\* largest cell value.
C1_Witness ==
  /\ op = "arm_dyn_get_disable_auth"
  /\ Validated
  /\ args.node = TbNode
  /\ TbProp(DTB_PROP_DISABLE_AUTH).cells = <<CellMod - 1>>
  /\ FailedWith(DomainError)

\* C2: a read of the heap descriptor that follows a successful write of
\* (heap_addr, heap_size), with no write in between, returns 0 and stores
\* exactly (heap_addr, heap_size).
C2_RoundTrip ==
  (op = "arm_get_dtb_mbedtls_heap_info" /\ pending.valid) =>
    /\ ret = 0
    /\ wrote = {"heap_addr", "heap_size"}
    /\ out.heap_addr = pending.heap_addr
    /\ out.heap_size = pending.heap_size

\* C2 witness: a descriptor whose address has two different, non-zero cells
\* was written and read back.
C2_Witness ==
  /\ op = "arm_get_dtb_mbedtls_heap_info"
  /\ pending.valid
  /\ pending.heap_addr \div CellMod > 0
  /\ pending.heap_addr % CellMod > pending.heap_addr \div CellMod
  /\ pending.heap_size = CellMod - 1
  /\ ret = 0

\* C3 as stated: the status the validator returns for a malformed header
\* differs from the status it returns for every header-valid DTB without an
\* "arm,tb_fw" node.
C3_DistinctStatus ==
  (op = "arm_dyn_tb_fw_cfg_init" /\ ~halted /\ ~dtb.hdr) =>
    \A b \in Blobs :
      (b.hdr /\ fdt_node_offset_by_compatible(b, -1, TB_FW_COMPATIBLE) < 0) =>
        arm_dyn_tb_fw_cfg_init(b).ret # ret

\* C3 amended: the validator returns -1 for both failures; a malformed header
\* is reported with the invalid-DTB warning, a header-valid DTB without an
\* "arm,tb_fw" node with the not-found warning and never the invalid-DTB one.
C3_SameStatusDistinctWarning ==
  (op = "arm_dyn_tb_fw_cfg_init") =>
    /\ ~dtb.hdr => FailedWith(StructuralError)
    /\ (dtb.hdr /\ TbNode < 0) =>
         FailedWith(NodeNotFoundError) /\ ~FailedWith(StructuralError)
    /\ Validated => ret = 0 /\ out.node = TbNode

\* C3 witness: the validator has run on a header-valid DTB without the node.
C3_Witness ==
  /\ op = "arm_dyn_tb_fw_cfg_init"
  /\ dtb.hdr
  /\ TbNode < 0
  /\ ret = -1
  /\ "node" \in wrote

WriteAddrError == "ERROR: Unable to write DTB property mbedtls_heap_addr"

WriteSizeError == "ERROR: Unable to write DTB property mbedtls_heap_size"

ReadAddrError == "ERROR: Error while reading mbedtls_heap_addr from DTB"

ReadSizeError == "ERROR: Error while reading mbedtls_heap_size from DTB"

\* Every operation but the disable-auth accessor, and the accessor when
\* assertions are compiled in.
ChecksHeader ==
  \/ op \in {"arm_dyn_tb_fw_cfg_init", "arm_get_dtb_mbedtls_heap_info",
             "arm_set_dtb_mbedtls_heap_info"}
  \/ op = "arm_dyn_get_disable_auth" /\ ENABLE_ASSERTIONS

\* The header check is the first library call, and on an invalid header the
\* only one, the call ending with an error.
HeaderFirst ==
  /\ calls # <<>>
  /\ calls[1] = CallCheckHeader
  /\ ~dtb.hdr => calls = <<CallCheckHeader>> /\ (halted \/ ret < 0)

\* C4 as stated: in every operation the header check comes before any node
\* search, property read or property write, and on an invalid header the
\* operation ends with an error having made none of these.
C4_HeaderFirstAlways == (op # "none") => HeaderFirst

\* C4 amended: this holds of the validator, the heap reader and the heap
\* writer, and of the disable-auth accessor when assertions are compiled in;
\* with assertions compiled out the accessor checks no header and its only
\* library call is the property read.
C4_HeaderFirstWhenChecked ==
  /\ ChecksHeader => HeaderFirst
  /\ (op = "arm_dyn_get_disable_auth" /\ ~ENABLE_ASSERTIONS) =>
       calls = <<CallRead(DTB_PROP_DISABLE_AUTH)>> /\ ~halted

\* C4 witness: the heap writer was called on a DTB with an invalid header.
C4_Witness ==
  /\ op = "arm_set_dtb_mbedtls_heap_info"
  /\ ~dtb.hdr
  /\ calls = <<CallCheckHeader>>
  /\ ret = -1

\* The accessor was called on a header-valid DTB with a node offset that is
\* not the one the validator produces.
HandleMismatch ==
  op = "arm_dyn_get_disable_auth" /\ dtb.hdr /\ args.node # TbNode

\* The call aborted without reading the property.
AbortedBeforeRead ==
  /\ halted
  /\ CallRead(DTB_PROP_DISABLE_AUTH) \notin { calls[i] : i \in 1 .. Len(calls) }
  /\ wrote = {}

\* C5 as stated: a call of the accessor with a mismatching node offset
\* always aborts without reading the property or returning success.
C5_MismatchAlwaysAborts == HandleMismatch => AbortedBeforeRead

\* C5 amended: with assertions compiled in, a call of the accessor with a
\* mismatching node offset aborts without reading the property; with
\* assertions compiled out the offset is not compared and the property is
\* read through it.
C5_MismatchAbortsWhenAsserting ==
  /\ (HandleMismatch /\ ENABLE_ASSERTIONS) => AbortedBeforeRead
  /\ (HandleMismatch /\ ~ENABLE_ASSERTIONS) =>
       calls = <<CallRead(DTB_PROP_DISABLE_AUTH)>> /\ ~halted

\* C5 witness: with assertions compiled in, the accessor was called with the
\* offset of a node that is not the "arm,tb_fw" node while one exists.
C5_Witness ==
  /\ HandleMismatch
  /\ ENABLE_ASSERTIONS
  /\ TbNode >= 0
  /\ args.node >= 0
  /\ args.node < Len(dtb.nodes)
  /\ halted

\* Presence and width of every property, the header and the nodes.
Shape(d) ==
  [hdr |-> d.hdr,
   nodes |-> [i \in 1 .. Len(d.nodes) |->
     [compatible |-> d.nodes[i].compatible,
      props |-> [p \in PropNames |->
        [present |-> d.nodes[i].props[p].present,
         width |-> Len(d.nodes[i].props[p].cells)]]]]]

\* C6: a heap write on a validated DTB in which a heap property is absent
\* or has not the width of the schema returns -1 with the unable-to-write
\* error (WriteError), creates no property, and leaves the total size, the
\* header and the structure as they were.
C6_AbsentSlotWriteError ==
  [][ ( /\ op' = "arm_set_dtb_mbedtls_heap_info"
        /\ Validated
        /\ \/ ~HasCells(dtb, TbNode, DTB_PROP_MBEDTLS_HEAP_ADDR, 2)
           \/ ~HasCells(dtb, TbNode, DTB_PROP_MBEDTLS_HEAP_SIZE, 1) )
      => /\ ret' = -1
         /\ ~halted'
         /\ log' \in {<<WriteAddrError>>, <<WriteSizeError>>}
         /\ Shape(dtb') = Shape(dtb)
         /\ fdt_totalsize(dtb') = fdt_totalsize(dtb) ]_vars

\* C6 witness: the heap writer has failed on a validated DTB that has no
\* mbedtls_heap_addr property.
C6_Witness ==
  /\ op = "arm_set_dtb_mbedtls_heap_info"
  /\ Validated
  /\ ~TbProp(DTB_PROP_MBEDTLS_HEAP_ADDR).present
  /\ HasCells(dtb, TbNode, DTB_PROP_MBEDTLS_HEAP_SIZE, 1)
  /\ FailedWith(WriteAddrError)

\* C7: the heap reader returns 0 exactly when the DTB validates and holds
\* mbedtls_heap_addr with 2 cells and mbedtls_heap_size with 1 cell; when a
\* property is missing or short it returns -1 with the error-while-reading
\* message (NotFoundError), also when the address was already stored to the
\* caller's output before the size read failed.
C7_ReaderAllOrNothing ==
  (op = "arm_get_dtb_mbedtls_heap_info") =>
    LET addrOk == Validated /\ HasCells(dtb, TbNode, DTB_PROP_MBEDTLS_HEAP_ADDR, 2)
        sizeOk == Validated /\ HasCells(dtb, TbNode, DTB_PROP_MBEDTLS_HEAP_SIZE, 1)
    IN /\ ~halted
       /\ ret \in {0, -1}
       /\ ret = 0 <=> (addrOk /\ sizeOk)
       /\ ret = 0 => wrote = {"heap_addr", "heap_size"}
       /\ (Validated /\ ~addrOk) => FailedWith(ReadAddrError) /\ wrote = {}
       /\ (addrOk /\ ~sizeOk) =>
            /\ FailedWith(ReadSizeError)
            /\ wrote = {"heap_addr"}
            /\ out.heap_addr = Decode(TbProp(DTB_PROP_MBEDTLS_HEAP_ADDR).cells)

\* C7 witness: the reader has stored the address and then failed on a size
\* property that is absent.
C7_Witness ==
  /\ op = "arm_get_dtb_mbedtls_heap_info"
  /\ Validated
  /\ HasCells(dtb, TbNode, DTB_PROP_MBEDTLS_HEAP_ADDR, 2)
  /\ ~TbProp(DTB_PROP_MBEDTLS_HEAP_SIZE).present
  /\ wrote = {"heap_addr"}
  /\ ret = -1

ValidatorCalls == <<CallCheckHeader, CallFindNode>>

\* C8: the heap writer writes the address before the size and does not roll
\* back: when the address write succeeds and the size write fails the call
\* returns -1 and the DTB holds the new address and the size property as it
\* was; when the address write fails the size write is not made and the DTB
\* is as it was.
C8_AddrFirstNoRollback ==
  [][ (op' = "arm_set_dtb_mbedtls_heap_info" /\ Validated) =>
        LET n == TbNode
            addrOk == HasCells(dtb, n, DTB_PROP_MBEDTLS_HEAP_ADDR, 2)
            sizeOk == HasCells(dtb, n, DTB_PROP_MBEDTLS_HEAP_SIZE, 1)
        IN /\ addrOk =>
                /\ calls' = ValidatorCalls \o <<CallWrite(DTB_PROP_MBEDTLS_HEAP_ADDR),
                                                CallWrite(DTB_PROP_MBEDTLS_HEAP_SIZE)>>
                /\ Decode(dtb'.nodes[n + 1].props[DTB_PROP_MBEDTLS_HEAP_ADDR].cells)
                     = args'.heap_addr
           /\ (addrOk /\ ~sizeOk) =>
                /\ ret' = -1
                /\ dtb'.nodes[n + 1].props[DTB_PROP_MBEDTLS_HEAP_SIZE]
                     = dtb.nodes[n + 1].props[DTB_PROP_MBEDTLS_HEAP_SIZE]
           /\ ~addrOk =>
                /\ ret' = -1
                /\ calls' = ValidatorCalls \o <<CallWrite(DTB_PROP_MBEDTLS_HEAP_ADDR)>>
                /\ dtb' = dtb ]_vars

\* C8 witness: the address write has stored a new address and the size write
\* has failed.
C8_Witness ==
  /\ op = "arm_set_dtb_mbedtls_heap_info"
  /\ Validated
  /\ FailedWith(WriteSizeError)
  /\ Decode(TbProp(DTB_PROP_MBEDTLS_HEAP_ADDR).cells) = args.heap_addr
  /\ TbProp(DTB_PROP_MBEDTLS_HEAP_ADDR) # dtb0.nodes[TbNode + 1].props[DTB_PROP_MBEDTLS_HEAP_ADDR]

\* The DTB with the cells of the two heap properties blanked.
Frame(d) ==
  [hdr |-> d.hdr,
   nodes |-> [i \in 1 .. Len(d.nodes) |->
     [compatible |-> d.nodes[i].compatible,
      props |-> [p \in PropNames |->
        IF p = DTB_PROP_DISABLE_AUTH THEN d.nodes[i].props[p]
        ELSE [present |-> d.nodes[i].props[p].present,
              width |-> Len(d.nodes[i].props[p].cells)]]]]]

\* C9: after any sequence of calls the total size, the header, the nodes and
\* every property but the cells of mbedtls_heap_addr and mbedtls_heap_size are
\* those of the DTB as loaded, and no call but arm_set_dtb_mbedtls_heap_info
\* changes the DTB.
C9_FrameEffect ==
  /\ [](Frame(dtb) = Frame(dtb0) /\ fdt_totalsize(dtb) = fdt_totalsize(dtb0))
  /\ [][op' # "arm_set_dtb_mbedtls_heap_info" => dtb' = dtb]_vars

\* C9 witness: a heap write has changed the DTB next to a disable_auth
\* property.
C9_Witness ==
  /\ op = "arm_set_dtb_mbedtls_heap_info"
  /\ ret = 0
  /\ dtb # dtb0
  /\ TbProp(DTB_PROP_DISABLE_AUTH).present
  /\ Len(TbProp(DTB_PROP_DISABLE_AUTH).cells) = 1

\* C10: arm_set_dtb_mbedtls_heap_info returns 0 exactly when the validator
\* and both writes succeed, and 1 in every other case.
C10_ReturnsZeroOrOne ==
  (op = "arm_set_dtb_mbedtls_heap_info") =>
    LET ok == /\ Validated
              /\ HasCells(dtb, TbNode, DTB_PROP_MBEDTLS_HEAP_ADDR, 2)
              /\ HasCells(dtb, TbNode, DTB_PROP_MBEDTLS_HEAP_SIZE, 1)
    IN /\ ~halted
       /\ ret = 0 <=> ok
       /\ ~ok => ret = 1

====
